---- MODULE Spec2Model ----
(***************************************************************************)
(* A model of spaGO's Parameter (nn.param), its binary serializer          *)
(* (nn.ParamSerializer) and the embeddings Store (embeddings.Model).       *)
(*                                                                         *)
(* Abstractions.  A float64 is an integer (the arithmetic used here, + and *)
(* -, is exact on the small values the model draws).  A byte stream is a   *)
(* sequence of 64-bit words, 8 bytes each: every field of the format is a  *)
(* whole number of words, and a read that is cut inside a word fails like  *)
(* a read that finds no word at all.  A nil pointer or nil interface is    *)
(* the record whose field nil is TRUE.  A panic or a log.Fatal ends the    *)
(* process: outcome records it and no action is enabled afterwards.        *)
(***************************************************************************)
EXTENDS Integers, Sequences, FiniteSets, TLC

VARIABLES
  par,      \* the Parameter under test (a *param)
  kvdb,     \* the backing store (a kvdb.KeyValueDB handle and its table)
  buf,      \* the bytes.Buffer the last Serialize wrote to
  ser,      \* what the last successful Serialize serialized
  last,     \* the call that produced this state, with its arguments
  outcome,  \* how that call ended: "ok", "error", "panic" or "fatal"
  nops,     \* the number of calls made so far
  pool,     \* mat's pool of Dense buffers: those released, with the contents they had
  mu,       \* param.mu: 0 when free, else the thread holding it
  pc,       \* each thread's position in the call it is making
  loc,      \* each thread's call: operation, arguments, locals, result
  allocs,   \* the number of gradient buffers taken from the pool
  calls,    \* the number of calls each thread has started
  cfg,      \* embeddings.Config: ReadOnly, UseZeroEmbedding
  used,     \* Model.UsedEmbeddings: the working set, word -> Parameter
  ret,      \* what the last call on the Store returned
  pending,  \* per word, the value of a SetEmbedding no GetEmbedding has followed yet
  held,     \* per key, the Parameter the caller got from the Store and still holds
  enc,      \* the Processor: its graph's next node id, and what its last Encode did
  smu,      \* Model.mu: 0 when free, else the thread holding it
  fn,       \* the Reshape node over the Parameter: rows, cols, its forward output
  graphs,   \* every ag.Graph made so far, in the order of NewGraph
  ev,       \* the Evaluator's Predict call in progress: its position and locals
  made      \* which NewParam call built each Parameter of the working set, and the
            \* number of times the working set was cleared

pvars == <<par, kvdb, buf, ser, last, outcome, nops, pool>>

cvars == <<mu, pc, loc, allocs, calls>>

svars == <<cfg, used, ret, pending, held, enc, smu>>

evars == <<graphs, ev>>

vars == <<pvars, cvars, svars, fn, evars, made>>

\* ------------------------------------------------------------------ bounds
MaxData == 1
MaxOps == 3
NThreads == 2
MaxCalls == 1
MaxWords == 3

\* ------------------------------------------------------------ Numeric Value
Mat(r, c, d) == [nil |-> FALSE, rows |-> r, cols |-> c, data |-> d]

NilMat == [nil |-> TRUE, rows |-> 0, cols |-> 0, data |-> <<>>]

Dims(m) == <<m.rows, m.cols>>

SameDims(a, b) == a.rows = b.rows /\ a.cols = b.cols

\* The pooled buffers that can hold rows x cols elements.
Pooled(r, c) == {b \in pool : Len(b.data) = r * c}

\* The buffer the pool hands out for rows x cols elements; nil when it has none.
Taken(r, c) == IF Pooled(r, c) = {} THEN NilMat ELSE CHOOSE b \in Pooled(r, c) : TRUE

\* The pool once that buffer is handed out.
PoolAfterGet(r, c) == pool \ {Taken(r, c)}

\* mat.ReleaseDense(m): the buffer goes back to the pool as it is.
ReleaseDense(m) == pool \cup {m}

\* mat.GetDenseWorkspace(rows, cols): a pooled buffer with the contents it was
\* released with, or new (zero) memory.
GetDenseWorkspace(r, c) ==
  IF Taken(r, c).nil THEN Mat(r, c, [i \in 1..(r * c) |-> 0]) ELSE Mat(r, c, Taken(r, c).data)

\* mat.GetEmptyDenseWorkspace(rows, cols): GetDenseWorkspace, zero-filled.
GetEmptyDenseWorkspace(r, c) ==
  Mat(r, c, [i \in 1..Len(GetDenseWorkspace(r, c).data) |-> 0])

\* a.AddInPlace(b), defined when the dimensions agree (it panics otherwise).
AddInPlace(a, b) == [a EXCEPT !.data = [i \in 1..Len(a.data) |-> a.data[i] + b.data[i]]]

\* a.SubInPlace(b), defined when the dimensions agree (it panics otherwise).
SubInPlace(a, b) == [a EXCEPT !.data = [i \in 1..Len(a.data) |-> a.data[i] - b.data[i]]]

Elems == {0, 1}

Shapes == {<<1, 1>>, <<1, 2>>}

\* The Dense values the callers pass in.
Values == UNION {{Mat(s[1], s[2], d) : d \in [1..(s[1] * s[2]) -> Elems]} : s \in Shapes}

\* ------------------------------------------------------------------ Payload
NilPayload == [nil |-> TRUE, Label |-> 0, Data |-> <<>>]

MkPayload(label, data) == [nil |-> FALSE, Label |-> label, Data |-> data]

NewEmptySupport == MkPayload(0, <<>>)

Labels == {0, 1}

PayloadMats == {Mat(1, 1, <<e>>) : e \in Elems}

SeqsUpTo(S, n) == UNION {[1..k -> S] : k \in 0..n}

\* The payloads an optimizer sets: any label, any number of data values.
Payloads == {MkPayload(l, d) : l \in Labels, d \in SeqsUpTo(PayloadMats, MaxData)}

\* ---------------------------------------------------------------- Parameter
NewParam(value, requiresGrad, storage) ==
  [name |-> "", value |-> value, grad |-> NilMat, payload |-> NilPayload,
   hasGrad |-> FALSE, requiresGrad |-> requiresGrad, storage |-> storage]

SetName(p, name) == [p EXCEPT !.name = name]

\* ------------------------------------------------------------- binary format
WordBytes == 8

headerSize == 16

\* mat.MarshalBinaryTo: the dimensions, then the elements in row-major order.
MatMarshalBinaryTo(m) == <<m.rows, m.cols>> \o m.data

RECURSIVE MarshalBinarySlice(_)
\* mat.MarshalBinarySlice: the values one after the other.
MarshalBinarySlice(ms) ==
  IF ms = <<>> THEN <<>>
  ELSE MatMarshalBinaryTo(Head(ms)) \o MarshalBinarySlice(Tail(ms))

\* header.marshalBinaryTo: {Label, Size}, two little-endian int64.
headerMarshalBinaryTo(h) == <<h.Label, h.Size>>

\* PayloadMarshalBinaryTo: supp.Label dereferences supp, a nil supp panics.
PayloadMarshalBinaryTo(supp) ==
  IF supp.nil THEN [panic |-> TRUE, n |-> 0, bytes |-> <<>>]
  ELSE LET hb == headerMarshalBinaryTo([Label |-> supp.Label, Size |-> Len(supp.Data)])
           sb == MarshalBinarySlice(supp.Data)
       IN [panic |-> FALSE, n |-> WordBytes * (Len(hb) + Len(sb)), bytes |-> hb \o sb]

paramDataMarshalBinaryTo(data) ==
  LET vb == MatMarshalBinaryTo(data.Value)
      pb == PayloadMarshalBinaryTo(data.Payload)
  IN IF pb.panic THEN [panic |-> TRUE, n |-> WordBytes * Len(vb), bytes |-> vb]
     ELSE [panic |-> FALSE, n |-> WordBytes * Len(vb) + pb.n, bytes |-> vb \o pb.bytes]

\* ParamSerializer.Serialize: s.value.(*mat.Dense) panics on a nil value.
Serialize(p) ==
  IF p.value.nil THEN [panic |-> TRUE, n |-> 0, bytes |-> <<>>]
  ELSE paramDataMarshalBinaryTo([Value |-> p.value, Payload |-> p.payload])

\* utils.ReadFull(r, buf) with len(buf) = k words: all of them or an error.
ReadFull(b, k) ==
  IF Len(b) >= k
  THEN [err |-> FALSE, n |-> WordBytes * k, got |-> SubSeq(b, 1, k), rest |-> SubSeq(b, k + 1, Len(b))]
  ELSE [err |-> TRUE, n |-> WordBytes * Len(b), got |-> b, rest |-> <<>>]

\* The element of a one-element set.  Only({F(x) : x \in {e}}) is F(e), with e
\* evaluated once however often F uses it.
Only(S) == CHOOSE x \in S : TRUE

\* mat.NewUnmarshalBinaryFrom: the dimensions, then rows*cols elements.
NewUnmarshalBinaryFrom(b) ==
  Only({ IF h.err THEN [err |-> TRUE, n |-> h.n, value |-> NilMat, rest |-> <<>>]
         ELSE Only({ IF e.err THEN [err |-> TRUE, n |-> h.n + e.n, value |-> NilMat, rest |-> <<>>]
                     ELSE [err |-> FALSE, n |-> h.n + e.n,
                           value |-> Mat(h.got[1], h.got[2], e.got), rest |-> e.rest]
                     : e \in {ReadFull(h.rest, h.got[1] * h.got[2])} })
         : h \in {ReadFull(b, 2)} })

RECURSIVE NewUnmarshalBinarySlice(_, _)
\* mat.NewUnmarshalBinarySlice(data, r): len(data) = k values, stopping at the first error.
NewUnmarshalBinarySlice(k, b) ==
  IF k = 0 THEN [err |-> FALSE, n |-> 0, data |-> <<>>, rest |-> b]
  ELSE Only({ IF m.err THEN [err |-> TRUE, n |-> m.n, data |-> <<>>, rest |-> <<>>]
              ELSE Only({ [err |-> t.err, n |-> m.n + t.n,
                           data |-> IF t.err THEN <<>> ELSE <<m.value>> \o t.data,
                           rest |-> t.rest]
                          : t \in {NewUnmarshalBinarySlice(k - 1, m.rest)} })
              : m \in {NewUnmarshalBinaryFrom(b)} })

\* header.unmarshalBinaryFrom: headerSize bytes through utils.ReadFull.
headerUnmarshalBinaryFrom(b) ==
  Only({ IF r.err THEN [err |-> TRUE, n |-> r.n, Label |-> 0, Size |-> 0, rest |-> <<>>]
         ELSE [err |-> FALSE, n |-> r.n, Label |-> r.got[1], Size |-> r.got[2], rest |-> r.rest]
         : r \in {ReadFull(b, headerSize \div WordBytes)} })

\* NewPayloadUnmarshalBinaryFrom; "n = +nn" assigns nn, it does not add it.
NewPayloadUnmarshalBinaryFrom(b) ==
  Only({ IF h.err THEN [err |-> TRUE, n |-> h.n, supp |-> NilPayload, rest |-> <<>>]
         ELSE Only({ IF s.err THEN [err |-> TRUE, n |-> s.n, supp |-> NilPayload, rest |-> <<>>]
                     ELSE [err |-> FALSE, n |-> s.n, supp |-> MkPayload(h.Label, s.data), rest |-> s.rest]
                     : s \in {NewUnmarshalBinarySlice(h.Size, h.rest)} })
         : h \in {headerUnmarshalBinaryFrom(b)} })

paramDataUnmarshalBinaryFrom(b) ==
  Only({ IF v.err THEN [err |-> TRUE, n |-> v.n, Value |-> NilMat, Payload |-> NilPayload]
         ELSE Only({ IF s.err THEN [err |-> TRUE, n |-> v.n + s.n, Value |-> NilMat, Payload |-> NilPayload]
                     ELSE [err |-> FALSE, n |-> v.n + s.n, Value |-> v.value, Payload |-> s.supp]
                     : s \in {NewPayloadUnmarshalBinaryFrom(v.rest)} })
         : v \in {NewUnmarshalBinaryFrom(b)} })

\* Deserialize without its early return: the fields are assigned whatever was read.
DeserializeAssignsOnError(p, b) ==
  Only({ [err |-> d.err, n |-> d.n, par |-> [p EXCEPT !.value = d.Value, !.payload = d.Payload]]
         : d \in {paramDataUnmarshalBinaryFrom(b)} })

\* ParamSerializer.Deserialize: on an error it returns before assigning anything.
Deserialize(p, b) ==
  Only({ IF d.err THEN [err |-> TRUE, n |-> d.n, par |-> p]
         ELSE [err |-> FALSE, n |-> d.n, par |-> [p EXCEPT !.value = d.Value, !.payload = d.Payload]]
         : d \in {paramDataUnmarshalBinaryFrom(b)} })

\* ------------------------------------------------------------ backing store
Words == {"Paris", "paris", "rome"}

Keys == Words \cup {""}

NoEntry == [found |-> FALSE, data |-> <<>>]

\* kvdb.NewDefaultKeyValueDB: an open handle on an empty table.
NewKeyValueDB(readOnly) ==
  [data |-> [k \in Keys |-> NoEntry], readOnly |-> readOnly, closed |-> FALSE]

\* storage.Put(key, value): refused by a read-only or closed handle.
Put(kv, key, bytes) ==
  IF kv.readOnly \/ kv.closed THEN [err |-> TRUE, kv |-> kv]
  ELSE [err |-> FALSE, kv |-> [kv EXCEPT !.data[key] = [found |-> TRUE, data |-> bytes]]]

\* storage.Get(key): (bytes, found, error).
Get(kv, key) ==
  IF kv.closed THEN [err |-> TRUE, ok |-> FALSE, data |-> <<>>]
  ELSE [err |-> FALSE, ok |-> kv.data[key].found, data |-> kv.data[key].data]

\* -------------------------------------------------- Parameter: the handlers
\* Each handler is the code between r.mu.Lock() and the deferred r.mu.Unlock():
\* it yields the Parameter, the backing store and how the call ended.
Done(p, kv) == [par |-> p, kvdb |-> kv, outcome |-> "ok"]

Panic(p, kv) == [par |-> p, kvdb |-> kv, outcome |-> "panic"]

Fatal(p, kv) == [par |-> p, kvdb |-> kv, outcome |-> "fatal"]

updateStorage(p, kv) ==
  IF ~p.storage THEN Done(p, kv)
  ELSE LET s == Serialize(p)
       IN IF s.panic THEN Panic(p, kv)
          ELSE LET w == Put(kv, p.name, s.bytes)
               IN IF w.err THEN Fatal(p, kv) ELSE Done(p, w.kv)

ReplaceValue(p, kv, value) ==
  LET q == [p EXCEPT !.value = value, !.payload = NilPayload]
  IN IF q.storage THEN updateStorage(q, kv) ELSE Done(q, kv)

\* The lazy allocation with mat.GetDenseWorkspace, which does not zero-fill.
PropagateGradAllocUnzeroed(p, kv) ==
  IF ~p.grad.nil THEN Done(p, kv)
  ELSE IF p.value.nil THEN Panic(p, kv)
  ELSE Done([p EXCEPT !.grad = GetDenseWorkspace(p.value.rows, p.value.cols)], kv)

\* PropagateGrad, the lazy allocation: r.value.Dims() panics on a nil value.
PropagateGradAlloc(p, kv) ==
  IF ~p.grad.nil THEN Done(p, kv)
  ELSE IF p.value.nil THEN Panic(p, kv)
  ELSE Done([p EXCEPT !.grad = GetEmptyDenseWorkspace(p.value.rows, p.value.cols)], kv)

\* The accumulation replaced by an assignment of the new gradient.
PropagateGradAddOverwrites(p, kv, acc, grad) ==
  IF grad.nil \/ acc.nil \/ ~SameDims(acc, grad) THEN Panic(p, kv)
  ELSE Done([p EXCEPT !.grad = grad, !.hasGrad = TRUE], kv)

\* PropagateGrad, r.grad.AddInPlace(grad) on the buffer `acc` read from r.grad,
\* then r.hasGrad = true.
PropagateGradAdd(p, kv, acc, grad) ==
  IF grad.nil \/ acc.nil \/ ~SameDims(acc, grad) THEN Panic(p, kv)
  ELSE Done([p EXCEPT !.grad = AddInPlace(acc, grad), !.hasGrad = TRUE], kv)

PropagateGrad(p, kv, grad) ==
  IF ~p.requiresGrad THEN Done(p, kv)
  ELSE LET a == PropagateGradAlloc(p, kv)
       IN IF a.outcome # "ok" THEN a
          ELSE PropagateGradAdd(a.par, kv, a.par.grad, grad)

\* ZeroGrad without its "r.hasGrad = false".
ZeroGradKeepsFlag(p, kv) ==
  IF p.grad.nil THEN Panic(p, kv)
  ELSE Done([p EXCEPT !.grad = NilMat], kv)

\* ZeroGrad under the lock: the deferred ReleaseDense evaluates r.grad.(*mat.Dense),
\* which panics on a nil r.grad.
ZeroGradLocked(p, kv) ==
  IF p.grad.nil THEN Panic(p, kv)
  ELSE Done([p EXCEPT !.grad = NilMat, !.hasGrad = FALSE], kv)

ZeroGrad(p, kv) ==
  IF p.grad.nil THEN Done(p, kv) ELSE ZeroGradLocked(p, kv)

\* PropagateGrad takes a gradient buffer for p: it passes the requiresGrad test
\* and finds r.grad nil.
Allocates(p) == p.requiresGrad /\ p.grad.nil /\ ~p.value.nil

\* The pool after PropagateGrad on p, and after ZeroGrad on p (the deferred
\* mat.ReleaseDense of the gradient).
PoolAfterPropagateGrad(p) ==
  IF Allocates(p) THEN PoolAfterGet(p.value.rows, p.value.cols) ELSE pool

PoolAfterZeroGrad(p) == IF p.grad.nil THEN pool ELSE ReleaseDense(p.grad)

ApplyDelta(p, kv, delta) ==
  IF p.value.nil \/ delta.nil \/ ~SameDims(p.value, delta) THEN Panic(p, kv)
  ELSE LET q == [p EXCEPT !.value = SubInPlace(p.value, delta)]
       IN IF q.storage THEN updateStorage(q, kv) ELSE Done(q, kv)

SetPayload(p, kv, payload) ==
  LET q == [p EXCEPT !.payload = payload]
  IN IF q.storage THEN updateStorage(q, kv) ELSE Done(q, kv)

ClearPayload(p, kv) ==
  LET q == [p EXCEPT !.payload = NilPayload]
  IN IF q.storage THEN updateStorage(q, kv) ELSE Done(q, kv)

\* ---------------------------------------------------------- embeddings.Model
\* strings.ToLower on the words of the model.
ToLower(w) == IF w = "Paris" THEN "paris" ELSE w

\* config.Size
Size == 1

\* Model.ZeroEmbedding: nn.NewParam(mat.NewEmptyVecDense(config.Size)), RequiresGrad(false).
ZeroEmbedding == NewParam(GetEmptyDenseWorkspace(Size, 1), FALSE, FALSE)

NilParam == NewParam(NilMat, FALSE, FALSE)

\* What a call on the Store returns: a Parameter ("param"), nil ("nil"), the
\* ZeroEmbedding ("zero"), a number ("count"), or nothing ("none").
Ret(kind, p, n) == [kind |-> kind, par |-> p, count |-> n]

NoRet == Ret("none", NilParam, 0)

\* An ag.Node of the graph: a wrapped Parameter with the identity the graph
\* gave it, or nil.
NilNode == [nil |-> TRUE, id |-> 0, par |-> NilParam]

\* Graph.NewWrap(param): a new Node, distinct from every Node made before.
NewWrap(id, p) == [nil |-> FALSE, id |-> id, par |-> p]

\* Processor.zeroEmbedding, set by NewProc: the wrapped ZeroEmbedding, or nil.
zeroEmbedding(c) == IF c.UseZeroEmbedding THEN NewWrap(1, ZeroEmbedding) ELSE NilNode

\* Model.NewProc(g) on a new graph; no Encode made yet.
NewProc(c) ==
  [next |-> IF c.UseZeroEmbedding THEN 2 ELSE 1,
   words |-> <<>>, nodes |-> <<>>, calls |-> 0, wraps |-> 0, found |-> {}]

\* ------------------------------------------------------------------ Reshape
\* fn.Reshape over operand x (the Parameter): the target dimensions, and the
\* output of its Forward (nil before it).
NewReshape(r, c) == [nil |-> FALSE, rows |-> r, cols |-> c, y |-> NilMat]

\* No Reshape node was built.
NoReshape == [nil |-> TRUE, rows |-> 0, cols |-> 0, y |-> NilMat]

\* ---------------------------------------------------------------- Evaluator
\* ag.NewGraph(): an empty graph, not cleared; `by` is the Predict calls that
\* hold it.
NewGraph(call) == [by |-> {call}, nodes |-> 0, produced |-> FALSE, cleared |-> 0, left |-> FALSE]

\* No Predict is running: t.model and nothing else.
Idle == [pc |-> "idle", g |-> 0, kind |-> "", n |-> 0, i |-> 0, panicking |-> FALSE,
         read |-> "none", pred |-> 0]

\* No Evaluator is in use.
NoPredict ==
  /\ graphs = <<>>
  /\ ev = Idle

\* No Parameter of the working set was built, and it was never cleared.
NoneMade == [epoch |-> 0, by |-> [w \in Words |-> <<>>]]

\* No Store is in use.
NoStore ==
  /\ cfg = [ReadOnly |-> FALSE, UseZeroEmbedding |-> FALSE]
  /\ enc = NewProc(cfg)
  /\ smu = 0
  /\ used = <<>>
  /\ ret = NoRet
  /\ pending = [w \in Words |-> NilMat]
  /\ held = [w \in Words |-> NilParam]

\* What a call on the Store leaves: the working set, the backing store, what
\* it returned and how it ended.
Out(u, kv, r, o) == [used |-> u, kvdb |-> kv, ret |-> r, outcome |-> o]

\* Model.SetEmbedding without the check of the error Put returns.
SetEmbeddingIgnoresPutError(c, u, kv, word, value) ==
  IF c.ReadOnly THEN Out(u, kv, NoRet, "fatal")
  ELSE LET embedding == SetPayload(NewParam(value, TRUE, FALSE), kv, NewEmptySupport).par
           s == Serialize(embedding)
       IN IF s.panic THEN Out(u, kv, NoRet, "panic")
          ELSE Out(u, Put(kv, word, s.bytes).kv, NoRet, "ok")

\* Model.SetEmbedding that also puts the new Parameter in the working set.
SetEmbeddingCaches(c, u, kv, word, value) ==
  IF c.ReadOnly THEN Out(u, kv, NoRet, "fatal")
  ELSE LET embedding == SetPayload(NewParam(value, TRUE, FALSE), kv, NewEmptySupport).par
           s == Serialize(embedding)
       IN IF s.panic THEN Out(u, kv, NoRet, "panic")
          ELSE LET w == Put(kv, word, s.bytes)
               IN IF w.err THEN Out(u, kv, NoRet, "fatal")
                  ELSE Out((word :> SetName(embedding, word)) @@ u, w.kv, NoRet, "ok")

\* Model.SetEmbedding
SetEmbedding(c, u, kv, word, value) ==
  IF c.ReadOnly THEN Out(u, kv, NoRet, "fatal")
  ELSE LET embedding == SetPayload(NewParam(value, TRUE, FALSE), kv, NewEmptySupport).par
           s == Serialize(embedding)
       IN IF s.panic THEN Out(u, kv, NoRet, "panic")
          ELSE LET w == Put(kv, word, s.bytes)
               IN IF w.err THEN Out(u, kv, NoRet, "fatal")
                  ELSE Out(u, w.kv, NoRet, "ok")

\* Model.getEmbedding as its comment describes it: the ZeroEmbedding for a word
\* that is not found, when the configuration asks for it.
getEmbeddingOrZero(c, u, kv, word) ==
  IF word \in DOMAIN u THEN Out(u, kv, Ret("param", u[word], 0), "ok")
  ELSE Only({
    IF g.err THEN Out(u, kv, NoRet, "fatal")
    ELSE IF ~g.ok
    THEN Out(u, kv, IF c.UseZeroEmbedding THEN Ret("zero", ZeroEmbedding, 0)
                    ELSE Ret("nil", NilParam, 0), "ok")
    ELSE Only({
      IF d.err THEN Out(u, kv, NoRet, "fatal")
      ELSE Only({ Out((word :> e) @@ u, kv, Ret("param", e, 0), "ok")
                  : e \in {SetName([d.par EXCEPT !.requiresGrad = IF c.ReadOnly THEN FALSE ELSE @], word)} })
      : d \in {Deserialize(NewParam(NilMat, TRUE, TRUE), g.data)} })
    : g \in {Get(kv, word)} })

\* Model.getEmbedding without the read-only branch: the materialized Parameter
\* keeps the requiresGrad NewParam gave it.
getEmbeddingKeepsGrad(c, u, kv, word) ==
  IF word \in DOMAIN u THEN Out(u, kv, Ret("param", u[word], 0), "ok")
  ELSE Only({
    IF g.err THEN Out(u, kv, NoRet, "fatal")
    ELSE IF ~g.ok THEN Out(u, kv, Ret("nil", NilParam, 0), "ok")
    ELSE Only({
      IF d.err THEN Out(u, kv, NoRet, "fatal")
      ELSE Only({ Out((word :> e) @@ u, kv, Ret("param", e, 0), "ok")
                  : e \in {SetName(d.par, word)} })
      : d \in {Deserialize(NewParam(NilMat, TRUE, TRUE), g.data)} })
    : g \in {Get(kv, word)} })

\* Model.getEmbedding: the cached Parameter, or the stored one materialized and
\* cached, or nil.
getEmbedding(c, u, kv, word) ==
  IF word \in DOMAIN u THEN Out(u, kv, Ret("param", u[word], 0), "ok")
  ELSE Only({
    IF g.err THEN Out(u, kv, NoRet, "fatal")
    ELSE IF ~g.ok THEN Out(u, kv, Ret("nil", NilParam, 0), "ok")
    ELSE Only({
      IF d.err THEN Out(u, kv, NoRet, "fatal")
      ELSE Only({ Out((word :> e) @@ u, kv, Ret("param", e, 0), "ok")
                  : e \in {SetName([d.par EXCEPT !.requiresGrad = IF c.ReadOnly THEN FALSE ELSE @], word)} })
      : d \in {Deserialize(NewParam(NilMat, TRUE, TRUE), g.data)} })
    : g \in {Get(kv, word)} })

\* Model.GetEmbedding: the exact word, then the word in lower case, then nil.
\* A lookup that finds nothing leaves the Store as it was, so the second
\* lookup starts from the same working set and backing store.
GetEmbedding(c, u, kv, word) ==
  Only({ IF found.outcome # "ok" \/ found.ret.kind # "nil" THEN found
         ELSE getEmbedding(c, u, kv, ToLower(word))
         : found \in {getEmbedding(c, u, kv, word)} })

\* Model.ClearUsedEmbeddings: m.UsedEmbeddings = map[string]*nn.Param{}
ClearUsedEmbeddings(c, u, kv) == Out(<<>>, kv, NoRet, "ok")

\* ClearUsedEmbeddings: mat.ReleaseDense(embedding.Value()) for every cached
\* Parameter; these are the buffers it releases.
Released(u) == {u[w].value : w \in DOMAIN u}

\* storage.Close(): the handle is closed, the table stays on the drive.
CloseDB(kv) == [kv EXCEPT !.closed = TRUE]

\* Model.Close: _ = m.storage.Close(), then m.ClearUsedEmbeddings().
Close(c, u, kv) == ClearUsedEmbeddings(c, u, CloseDB(kv))

\* storage.Keys()
KeysOf(kv) ==
  IF kv.closed THEN [err |-> TRUE, keys |-> {}]
  ELSE [err |-> FALSE, keys |-> {k \in Keys : kv.data[k].found}]

\* Model.Count
Count(c, u, kv) ==
  LET k == KeysOf(kv)
  IN IF k.err THEN Out(u, kv, NoRet, "fatal")
     ELSE Out(u, kv, Ret("count", NilParam, Cardinality(k.keys)), "ok")

\* Processor.getEmbedding wrapping the ZeroEmbedding anew at every miss,
\* instead of returning p.zeroEmbedding.
ProcessorGetEmbeddingWrapsZero(c, st, word) ==
  Only({ IF r.outcome # "ok"
         THEN [st EXCEPT !.outcome = r.outcome, !.calls = @ + 1, !.node = NilNode]
         ELSE IF r.ret.kind = "nil"
         THEN [st EXCEPT !.used = r.used, !.kvdb = r.kvdb, !.calls = @ + 1,
                         !.next = @ + 1, !.node = NewWrap(st.next, ZeroEmbedding)]
         ELSE [st EXCEPT !.used = r.used, !.kvdb = r.kvdb, !.calls = @ + 1,
                         !.wraps = @ + 1, !.next = @ + 1, !.found = @ \cup {word},
                         !.node = NewWrap(st.next, r.ret.par)]
         : r \in {GetEmbedding(c, st.used, st.kvdb, word)} })

\* Processor.getEmbedding(word) in the state st of an Encode: one call of
\* Model.GetEmbedding, then the zeroEmbedding Node for nil, else a new wrap.
ProcessorGetEmbedding(c, st, word) ==
  Only({ IF r.outcome # "ok"
         THEN [st EXCEPT !.outcome = r.outcome, !.calls = @ + 1, !.node = NilNode]
         ELSE IF r.ret.kind = "nil"
         THEN [st EXCEPT !.used = r.used, !.kvdb = r.kvdb, !.calls = @ + 1,
                         !.node = zeroEmbedding(c)]
         ELSE [st EXCEPT !.used = r.used, !.kvdb = r.kvdb, !.calls = @ + 1,
                         !.wraps = @ + 1, !.next = @ + 1, !.found = @ \cup {word},
                         !.node = NewWrap(st.next, r.ret.par)]
         : r \in {GetEmbedding(c, st.used, st.kvdb, word)} })

\* The body of Encode's loop without its cache: every word is looked up.
EncodeWordUncached(c, st, word) ==
  Only({ [n EXCEPT !.encoding = Append(@, n.node)]
         : n \in {ProcessorGetEmbedding(c, st, word)} })

\* The body of Encode's loop for one word: the Node of the cache, else the
\* Node of getEmbedding, which is stored in the cache.
EncodeWord(c, st, word) ==
  IF word \in DOMAIN st.cache THEN [st EXCEPT !.encoding = Append(@, st.cache[word])]
  ELSE Only({ [n EXCEPT !.encoding = Append(@, n.node), !.cache = (word :> n.node) @@ @]
              : n \in {ProcessorGetEmbedding(c, st, word)} })

RECURSIVE EncodeFrom(_, _, _, _)
\* Encode's loop from word i on; a log.Fatal in a lookup ends it.
EncodeFrom(c, st, words, i) ==
  IF i > Len(words) \/ st.outcome # "ok" THEN st
  ELSE Only({ EncodeFrom(c, n, words, i + 1) : n \in {EncodeWord(c, st, words[i])} })

\* Processor.Encode(words) on the graph whose next node id is `next`.
Encode(c, u, kv, next, words) ==
  EncodeFrom(c, [used |-> u, kvdb |-> kv, outcome |-> "ok", next |-> next,
                 cache |-> <<>>, encoding |-> <<>>, node |-> NilNode,
                 calls |-> 0, wraps |-> 0, found |-> {}], words, 1)

\* ----------------------------------------- one Parameter, one caller at a time
Threads == 1..NThreads

NoCall == [op |-> "", mat |-> NilMat, payload |-> NilPayload, tmp |-> NilMat, ret |-> NilMat]

\* No thread is running: the calls are made one at a time.
NoThreads ==
  /\ mu = 0
  /\ pc = [t \in Threads |-> "idle"]
  /\ loc = [t \in Threads |-> NoCall]
  /\ allocs = 0
  /\ calls = [t \in Threads |-> 0]

NoSer == [valid |-> FALSE, n |-> 0, value |-> NilMat, payload |-> NilPayload]

Op(name) ==
  [op |-> name, mat |-> NilMat, payload |-> NilPayload, bytes |-> <<>>, word |-> "", took |-> NilMat]

Prefixes(b) == {SubSeq(b, 1, k) : k \in 0..Len(b)}

Alive == outcome \in {"ok", "error"} /\ nops < MaxOps

\* The call `r` made as operation `o`: the state it leaves.
Returns(r, o) ==
  /\ par' = r.par
  /\ kvdb' = r.kvdb
  /\ outcome' = r.outcome
  /\ last' = o
  /\ nops' = nops + 1
  /\ UNCHANGED <<cvars, svars, fn, evars, made>>

ParamInit ==
  /\ par \in {NewParam(v, rg, st) : v \in Values \cup {NilMat}, rg \in BOOLEAN, st \in BOOLEAN}
  /\ kvdb = NewKeyValueDB(FALSE)
  /\ buf = <<>>
  /\ ser = NoSer
  /\ last = Op("NewParam")
  /\ outcome = "ok"
  /\ nops = 0
  /\ pool = {}
  /\ fn = NoReshape
  /\ NoPredict
  /\ made = NoneMade
  /\ NoThreads
  /\ NoStore

DoReplaceValue ==
  /\ Alive
  /\ \E v \in Values : Returns(ReplaceValue(par, kvdb, v), [Op("ReplaceValue") EXCEPT !.mat = v])
  /\ UNCHANGED <<buf, ser, pool>>

DoPropagateGrad ==
  /\ Alive
  /\ \E g \in Values :
       Returns(PropagateGrad(par, kvdb, g),
               [Op("PropagateGrad") EXCEPT !.mat = g,
                  !.took = IF Allocates(par) THEN Taken(par.value.rows, par.value.cols) ELSE NilMat])
  /\ pool' = PoolAfterPropagateGrad(par)
  /\ UNCHANGED <<buf, ser>>

DoZeroGrad ==
  /\ Alive
  /\ Returns(ZeroGrad(par, kvdb), Op("ZeroGrad"))
  /\ pool' = PoolAfterZeroGrad(par)
  /\ UNCHANGED <<buf, ser>>

DoApplyDelta ==
  /\ Alive
  /\ \E d \in Values : Returns(ApplyDelta(par, kvdb, d), [Op("ApplyDelta") EXCEPT !.mat = d])
  /\ UNCHANGED <<buf, ser, pool>>

DoSetPayload ==
  /\ Alive
  /\ \E s \in Payloads \cup {NilPayload} :
       Returns(SetPayload(par, kvdb, s), [Op("SetPayload") EXCEPT !.payload = s])
  /\ UNCHANGED <<buf, ser, pool>>

DoClearPayload ==
  /\ Alive
  /\ Returns(ClearPayload(par, kvdb), Op("ClearPayload"))
  /\ UNCHANGED <<buf, ser, pool>>

\* Serialize(&buf) on a fresh buffer; ser remembers what was serialized.
DoSerialize ==
  /\ Alive
  /\ LET s == Serialize(par)
     IN /\ buf' = s.bytes
        /\ ser' = IF s.panic THEN NoSer
                  ELSE [valid |-> TRUE, n |-> s.n, value |-> par.value, payload |-> par.payload]
        /\ Returns(IF s.panic THEN Panic(par, kvdb) ELSE Done(par, kvdb), Op("Serialize"))
  /\ UNCHANGED pool

\* Deserialize from a reader over the written bytes or over a prefix of them.
DoDeserialize ==
  /\ Alive
  /\ \E b \in Prefixes(buf) :
       LET d == Deserialize(par, b)
       IN Returns([par |-> d.par, kvdb |-> kvdb, outcome |-> IF d.err THEN "error" ELSE "ok"],
                  [Op("Deserialize") EXCEPT !.bytes = b])
  /\ UNCHANGED <<buf, ser, pool>>

ParamNext ==
  \/ DoReplaceValue
  \/ DoPropagateGrad
  \/ DoZeroGrad
  \/ DoApplyDelta
  \/ DoSetPayload
  \/ DoClearPayload
  \/ DoSerialize
  \/ DoDeserialize

ParamSpec == ParamInit /\ [][ParamNext]_vars

\* The calls that read or write the Value and the Gradient, on their own.
GradNext ==
  \/ DoReplaceValue
  \/ DoPropagateGrad
  \/ DoZeroGrad
  \/ DoApplyDelta

GradSpec == ParamInit /\ [][GradNext]_vars

\* ------------------------------------------------------ Reshape: the handlers
\* The dimensions a Reshape node is built with, and the output gradients the
\* backward pass hands to it.
OutShapes == Shapes \cup {<<2, 1>>}

OutGrads == UNION {{Mat(s[1], s[2], d) : d \in [1..(s[1] * s[2]) -> Elems]} : s \in OutShapes}

\* m.Reshape(r, c): a new matrix with the same elements in the same order; it
\* panics when r*c is not the number of elements.
Reshape(m, r, c) == Mat(r, c, m.data)

\* Reshape.Forward: x.Value().Size() on a nil Value panics, as does a Size
\* other than rows*cols.
Forward(f, p) ==
  IF p.value.nil \/ Len(p.value.data) # f.rows * f.cols
    THEN [panic |-> TRUE, y |-> NilMat]
    ELSE [panic |-> FALSE, y |-> Reshape(p.value, f.rows, f.cols)]

\* Reshape.Backward, the test on gy: "gy.Columns() != r.cols && gy.Rows() != r.rows".
BackwardRejects(f, gy) == gy.cols # f.cols /\ gy.rows # f.rows

\* Reshape.Backward, the branch taken when the operand requires a gradient:
\* gx := gy.Reshape(r.x.Value().Dims()), then r.x.PropagateGrad(gx).
BackwardPropagate(p, kv, gy) ==
  IF p.value.nil \/ Len(gy.data) # Len(p.value.data) THEN Panic(p, kv)
  ELSE PropagateGrad(p, kv, Reshape(gy, p.value.rows, p.value.cols))

Backward(f, p, kv, gy) ==
  IF BackwardRejects(f, gy) THEN Panic(p, kv)
  ELSE IF ~p.requiresGrad THEN Done(p, kv)
  ELSE BackwardPropagate(p, kv, gy)

\* The pool after Backward: PropagateGrad may take a buffer for the gradient,
\* and the deferred mat.ReleaseDense(gx) gives gx back.
PoolAfterBackward(f, p, gy) ==
  IF BackwardRejects(f, gy) \/ ~p.requiresGrad \/ p.value.nil
     \/ Len(gy.data) # Len(p.value.data)
    THEN pool
    ELSE PoolAfterPropagateGrad(p) \cup {Reshape(gy, p.value.rows, p.value.cols)}

\* A Parameter wrapped by a Reshape node of any target dimensions.
ReshapeInit ==
  /\ par \in {NewParam(v, rg, FALSE) : v \in Values, rg \in BOOLEAN}
  /\ kvdb = NewKeyValueDB(FALSE)
  /\ buf = <<>>
  /\ ser = NoSer
  /\ last = Op("NewReshape")
  /\ outcome = "ok"
  /\ nops = 0
  /\ pool = {}
  /\ fn \in {NewReshape(s[1], s[2]) : s \in OutShapes}
  /\ NoPredict
  /\ made = NoneMade
  /\ NoThreads
  /\ NoStore

\* The graph computes the node's output once, when it adds the node.
DoForward ==
  /\ Alive
  /\ fn.y.nil
  /\ \E r \in {Forward(fn, par)} :
       /\ fn' = [fn EXCEPT !.y = r.y]
       /\ outcome' = IF r.panic THEN "panic" ELSE "ok"
  /\ last' = Op("Forward")
  /\ nops' = nops + 1
  /\ UNCHANGED <<par, kvdb, buf, ser, pool, cvars, svars, evars, made>>

\* The backward pass hands an output gradient to a node that has an output.
DoBackward ==
  /\ Alive
  /\ ~fn.y.nil
  /\ \E gy \in OutGrads :
       /\ Returns(Backward(fn, par, kvdb, gy), [Op("Backward") EXCEPT !.mat = gy])
       /\ pool' = PoolAfterBackward(fn, par, gy)
  /\ UNCHANGED <<buf, ser>>

ReshapeNext ==
  \/ DoForward
  \/ DoBackward
  \/ DoZeroGrad

ReshapeSpec == ReshapeInit /\ [][ReshapeNext]_vars

\* ------------------------------------- one Parameter, several threads calling
\* A call is made in steps: the test a method makes before it locks ("check"),
\* r.mu.Lock() ("lock"), the code under the lock ("body", and for AddInPlace its
\* "read" and "write" of the gradient buffer), the deferred r.mu.Unlock()
\* ("unlock").

\* PropagateGrad without its r.mu.Lock().
LocksMuButPropagateGrad(op) ==
  op \in {"ReplaceValue", "ZeroGrad", "ApplyDelta", "Payload", "SetPayload", "ClearPayload"}

\* The methods that take r.mu (r.mu.Lock() and a deferred r.mu.Unlock()).
\* Value and Grad return their field without taking it.
LocksMu(op) ==
  op \in {"ReplaceValue", "PropagateGrad", "ZeroGrad", "ApplyDelta",
          "Payload", "SetPayload", "ClearPayload"}

Readers == {"Value", "Grad", "Payload"}

Mutators == {"ReplaceValue", "PropagateGrad", "ZeroGrad", "ApplyDelta", "SetPayload", "ClearPayload"}

\* The methods that test a field before they take the lock.
ChecksFirst == {"PropagateGrad", "ZeroGrad"}

\* The calls a thread can make.
CallsOf ==
  {[NoCall EXCEPT !.op = op] : op \in {"Value", "Grad", "Payload", "ZeroGrad", "ClearPayload"}}
  \cup {[NoCall EXCEPT !.op = op, !.mat = m] :
          op \in {"ReplaceValue", "PropagateGrad", "ApplyDelta"}, m \in Values}
  \cup {[NoCall EXCEPT !.op = "SetPayload", !.payload = s] : s \in Payloads \cup {NilPayload}}

\* Where a call goes once it is past its unlocked test, if it has one.
Locking(op) == IF LocksMu(op) THEN "lock" ELSE "body"

\* Where thread t goes once its body is done: to the deferred Unlock, if it locked.
Leaving(t) == IF mu = t THEN "unlock" ELSE "idle"

Running == outcome = "ok"

Goto(t, where) == pc' = [pc EXCEPT ![t] = where]

\* What the body `r` of thread t's call leaves; a panic runs the deferred Unlock
\* while it unwinds.
Leaves(t, r) ==
  /\ par' = r.par
  /\ kvdb' = r.kvdb
  /\ outcome' = r.outcome
  /\ IF r.outcome = "ok"
     THEN Goto(t, Leaving(t)) /\ mu' = mu
     ELSE Goto(t, "idle") /\ mu' = IF mu = t THEN 0 ELSE mu

\* Thread t starts a call.
Call(t) ==
  /\ Running
  /\ pc[t] = "idle"
  /\ calls[t] < MaxCalls
  /\ \E c \in CallsOf :
       /\ loc' = [loc EXCEPT ![t] = c]
       /\ Goto(t, IF c.op \in ChecksFirst THEN "check" ELSE Locking(c.op))
  /\ calls' = [calls EXCEPT ![t] = @ + 1]
  /\ UNCHANGED <<pvars, svars, mu, allocs, fn, evars, made>>

\* PropagateGrad's "if !r.requiresGrad" and ZeroGrad's "if r.grad == nil", both
\* evaluated before the lock is taken.
Check(t) ==
  /\ Running
  /\ pc[t] = "check"
  /\ IF loc[t].op = "PropagateGrad"
     THEN Goto(t, IF ~par.requiresGrad THEN "idle" ELSE Locking(loc[t].op))
     ELSE Goto(t, IF par.grad.nil THEN "idle" ELSE Locking(loc[t].op))
  /\ UNCHANGED <<pvars, svars, mu, loc, allocs, calls, fn, evars, made>>

\* r.mu.Lock()
Lock(t) ==
  /\ Running
  /\ pc[t] = "lock"
  /\ mu = 0
  /\ mu' = t
  /\ Goto(t, "body")
  /\ UNCHANGED <<pvars, svars, loc, allocs, calls, fn, evars, made>>

\* "return r.value", "return r.grad", "return r.payload"
ReadField(t) ==
  /\ Running
  /\ pc[t] = "body"
  /\ loc[t].op \in Readers
  /\ loc' = [loc EXCEPT ![t] =
       IF loc[t].op = "Value" THEN [@ EXCEPT !.ret = par.value]
       ELSE IF loc[t].op = "Grad" THEN [@ EXCEPT !.ret = par.grad]
       ELSE [@ EXCEPT !.retp = par.payload]]
  /\ Goto(t, Leaving(t))
  /\ UNCHANGED <<pvars, svars, mu, allocs, calls, fn, evars, made>>

\* The body of ReplaceValue, ZeroGrad, ApplyDelta, SetPayload or ClearPayload.
Mutate(t) ==
  /\ Running
  /\ pc[t] = "body"
  /\ loc[t].op \in Mutators \ {"PropagateGrad"}
  /\ Leaves(t, CASE loc[t].op = "ReplaceValue" -> ReplaceValue(par, kvdb, loc[t].mat)
                 [] loc[t].op = "ZeroGrad" -> ZeroGradLocked(par, kvdb)
                 [] loc[t].op = "ApplyDelta" -> ApplyDelta(par, kvdb, loc[t].mat)
                 [] loc[t].op = "SetPayload" -> SetPayload(par, kvdb, loc[t].payload)
                 [] OTHER -> ClearPayload(par, kvdb))
  /\ pool' = IF loc[t].op = "ZeroGrad" THEN PoolAfterZeroGrad(par) ELSE pool
  /\ UNCHANGED <<buf, ser, last, nops, svars, loc, allocs, calls, fn, evars, made>>

\* PropagateGrad: "if r.grad == nil { r.grad = mat.GetEmptyDenseWorkspace(...) }"
PGAlloc(t) ==
  /\ Running
  /\ pc[t] = "body"
  /\ loc[t].op = "PropagateGrad"
  /\ LET r == PropagateGradAlloc(par, kvdb)
     IN /\ par' = r.par
        /\ outcome' = r.outcome
        /\ allocs' = IF par.grad.nil /\ r.outcome = "ok" THEN allocs + 1 ELSE allocs
        /\ IF r.outcome = "ok"
           THEN Goto(t, "read") /\ mu' = mu
           ELSE Goto(t, "idle") /\ mu' = IF mu = t THEN 0 ELSE mu
  /\ pool' = IF par.grad.nil /\ ~par.value.nil
             THEN PoolAfterGet(par.value.rows, par.value.cols) ELSE pool
  /\ UNCHANGED <<kvdb, buf, ser, last, nops, svars, loc, calls, fn, evars, made>>

\* r.grad.AddInPlace(grad) reads the accumulated gradient ...
PGRead(t) ==
  /\ Running
  /\ pc[t] = "read"
  /\ loc' = [loc EXCEPT ![t].tmp = par.grad]
  /\ Goto(t, "write")
  /\ UNCHANGED <<pvars, svars, mu, allocs, calls, fn, evars, made>>

\* ... and writes the sum back; then r.hasGrad = true.
PGWrite(t) ==
  /\ Running
  /\ pc[t] = "write"
  /\ Leaves(t, PropagateGradAdd(par, kvdb, loc[t].tmp, loc[t].mat))
  /\ UNCHANGED <<buf, ser, last, nops, pool, svars, loc, allocs, calls, fn, evars, made>>

\* the deferred r.mu.Unlock()
Unlock(t) ==
  /\ Running
  /\ pc[t] = "unlock"
  /\ mu' = 0
  /\ Goto(t, "idle")
  /\ UNCHANGED <<pvars, svars, loc, allocs, calls, fn, evars, made>>

Quiet ==
  /\ NoStore
  /\ kvdb = NewKeyValueDB(FALSE)
  /\ buf = <<>>
  /\ ser = NoSer
  /\ last = Op("NewParam")
  /\ outcome = "ok"
  /\ nops = 0
  /\ pool = {}
  /\ fn = NoReshape
  /\ NoPredict
  /\ made = NoneMade

ConcInit ==
  /\ par \in {NewParam(v, rg, FALSE) : v \in Values, rg \in BOOLEAN}
  /\ Quiet
  /\ NoThreads

ConcNext ==
  \E t \in Threads :
    \/ Call(t)
    \/ Check(t)
    \/ Lock(t)
    \/ ReadField(t)
    \/ Mutate(t)
    \/ PGAlloc(t)
    \/ PGRead(t)
    \/ PGWrite(t)
    \/ Unlock(t)

ConcSpec == ConcInit /\ [][ConcNext]_vars

\* N threads, each in its one call PropagateGrad(g_t) with a gradient of the
\* Value's shape, on a Parameter that requires a gradient and has none yet.
AccInit ==
  /\ par \in {NewParam(v, TRUE, FALSE) : v \in Values}
  /\ Quiet
  /\ mu = 0
  /\ allocs = 0
  /\ pc = [t \in Threads |-> "check"]
  /\ calls = [t \in Threads |-> 1]
  /\ loc \in [Threads -> {[NoCall EXCEPT !.op = "PropagateGrad", !.mat = g] : g \in Values}]
  /\ \A t \in Threads : SameDims(loc[t].mat, par.value)

AccNext ==
  \E t \in Threads :
    \/ Check(t)
    \/ Lock(t)
    \/ PGAlloc(t)
    \/ PGRead(t)
    \/ PGWrite(t)
    \/ Unlock(t)

AccSpec == AccInit /\ [][AccNext]_vars

\* N threads, each in its one call of ZeroGrad or of PropagateGrad(g), on a
\* Parameter that holds the Gradient of an earlier backward pass.
ZeroInit ==
  /\ Quiet
  /\ par \in {PropagateGrad(NewParam(v, TRUE, FALSE), kvdb, g).par :
                v \in Values, g \in Values}
  /\ par.hasGrad
  /\ mu = 0
  /\ allocs = 0
  /\ pc = [t \in Threads |-> "check"]
  /\ calls = [t \in Threads |-> 1]
  /\ loc \in [Threads -> {[NoCall EXCEPT !.op = "ZeroGrad"]}
                          \cup {[NoCall EXCEPT !.op = "PropagateGrad", !.mat = g] : g \in Values}]
  /\ \A t \in Threads : loc[t].op = "PropagateGrad" => SameDims(loc[t].mat, par.value)

ZeroNext ==
  \E t \in Threads :
    \/ Check(t)
    \/ Lock(t)
    \/ Mutate(t)
    \/ PGAlloc(t)
    \/ PGRead(t)
    \/ PGWrite(t)
    \/ Unlock(t)

ZeroSpec == ZeroInit /\ [][ZeroNext]_vars

\* ----------------------------------------------- the Evaluator: Predict calls
MaxLen == 2

\* f64utils.ArgMinMax / ArgMax: the index (from 0) of the first greatest
\* element; 0 for an empty slice.
ArgMax(v) ==
  IF Len(v) < 1 THEN 0
  ELSE (CHOOSE i \in 1..Len(v) :
          /\ \A j \in 1..Len(v) : v[j] <= v[i]
          /\ \A j \in 1..(i - 1) : v[j] < v[i]) - 1

\* The examples Predict is given: a Sequence of any length (progsum), one
\* image (mnist).
Examples ==
  {[kind |-> "progsum", n |-> n] : n \in 0..MaxLen} \cup {[kind |-> "mnist", n |-> 1]}

\* The data of the output Value the model's Forward produced.
Outputs == UNION {[1..k -> Elems] : k \in 1..2}

\* "g := ag.NewGraph()": the graph Predict works on is a new one.
PredictGraph(gs) == Len(gs) + 1

\* Predict without "defer": g.Clear() is the last statement, not run when the
\* function unwinds in a panic.
PredictGotoClearLast(at, panics) ==
  CASE at = "inputs" -> "forward"
    [] at = "forward" -> IF panics THEN "leave" ELSE "result"
    [] at = "result" -> IF panics THEN "leave" ELSE "defer"
    [] OTHER -> "leave"

\* Where Predict goes from `at`: the deferred g.Clear() runs after the return
\* expression is evaluated and also when Forward or the indexing panics.
PredictGoto(at, panics) ==
  CASE at = "inputs" -> "forward"
    [] at = "forward" -> IF panics THEN "defer" ELSE "result"
    [] at = "result" -> "defer"
    [] OTHER -> "leave"

\* The Evaluator on its model, no Predict made yet.
PredictInit ==
  /\ par = NilParam
  /\ Quiet
  /\ NoThreads

\* Predict(example): "g := ag.NewGraph(); defer g.Clear()".
PCall ==
  /\ Alive
  /\ ev.pc = "idle"
  /\ \E e \in Examples :
       ev' = [Idle EXCEPT !.pc = "inputs", !.g = PredictGraph(graphs), !.kind = e.kind, !.n = e.n]
  /\ graphs' = IF PredictGraph(graphs) \in DOMAIN graphs
               THEN [graphs EXCEPT ![PredictGraph(graphs)].by = @ \cup {nops + 1}]
               ELSE Append(graphs, NewGraph(nops + 1))
  /\ nops' = nops + 1
  /\ last' = Op("Predict")
  /\ UNCHANGED <<par, kvdb, buf, ser, outcome, pool, cvars, svars, fn, made>>

\* One g.NewScalar(x.Input) of the loop, or g.NewVariable(image, false); after
\* the last one, on to Forward.
PInput ==
  /\ outcome = "ok"
  /\ ev.pc = "inputs"
  /\ IF ev.i < ev.n
     THEN /\ graphs' = [graphs EXCEPT ![ev.g].nodes = @ + 1]
          /\ ev' = [ev EXCEPT !.i = @ + 1]
     ELSE /\ ev' = [ev EXCEPT !.pc = PredictGoto("inputs", FALSE)]
          /\ UNCHANGED graphs
  /\ UNCHANGED <<pvars, cvars, svars, fn, made>>

\* t.model.NewProc(...).Forward(xs...): it produces the outputs, or panics.
PForward ==
  /\ outcome = "ok"
  /\ ev.pc = "forward"
  /\ \E panics \in BOOLEAN :
       /\ ev' = [ev EXCEPT !.pc = PredictGoto("forward", panics), !.panicking = panics]
       /\ graphs' = IF panics THEN graphs
                    ELSE [graphs EXCEPT ![ev.g].produced = TRUE, ![ev.g].nodes = @ + 1]
  /\ UNCHANGED <<pvars, cvars, svars, fn, made>>

\* "return f64utils.ArgMax(y.Value().Data())": the result is computed here;
\* ys[len(example)-1] panics on an empty Sequence.
PResult ==
  /\ outcome = "ok"
  /\ ev.pc = "result"
  /\ IF ev.n = 0
     THEN ev' = [ev EXCEPT !.pc = PredictGoto("result", TRUE), !.panicking = TRUE]
     ELSE \E v \in Outputs :
            ev' = [ev EXCEPT !.pc = PredictGoto("result", FALSE),
                             !.pred = ArgMax(v),
                             !.read = IF graphs[ev.g].cleared > 0 THEN "cleared"
                                      ELSE IF ~graphs[ev.g].produced THEN "unproduced"
                                      ELSE "ok"]
  /\ UNCHANGED <<pvars, cvars, svars, fn, graphs, made>>

\* The deferred g.Clear().
PClear ==
  /\ outcome = "ok"
  /\ ev.pc = "defer"
  /\ graphs' = [graphs EXCEPT ![ev.g].cleared = @ + 1]
  /\ ev' = [ev EXCEPT !.pc = PredictGoto("defer", ev.panicking)]
  /\ UNCHANGED <<pvars, cvars, svars, fn, made>>

\* Predict is left: it returns its result, or the panic goes on to the caller
\* and ends the program.
PLeave ==
  /\ outcome = "ok"
  /\ ev.pc = "leave"
  /\ graphs' = [graphs EXCEPT ![ev.g].left = TRUE]
  /\ ev' = [ev EXCEPT !.pc = "idle"]
  /\ outcome' = IF ev.panicking THEN "panic" ELSE "ok"
  /\ UNCHANGED <<par, kvdb, buf, ser, last, nops, pool, cvars, svars, fn, made>>

PredictNext ==
  \/ PCall
  \/ PInput
  \/ PForward
  \/ PResult
  \/ PClear
  \/ PLeave

PredictSpec == PredictInit /\ [][PredictNext]_vars

\* --------------------------------------------- one Store, one caller at a time
\* The values SetEmbedding is given.
EmbValues == {v \in Values : v.rows = Size /\ v.cols = 1}

\* What SetEmbedding(word, v) stores.
Stored(v) == [found |-> TRUE, data |-> Serialize(SetPayload(NewParam(v, TRUE, FALSE), NewKeyValueDB(FALSE), NewEmptySupport).par).bytes]

\* The call `r` on the Store made as operation `o`: the state it leaves.
StoreReturns(r, o) ==
  /\ used' = r.used
  /\ kvdb' = r.kvdb
  /\ ret' = r.ret
  /\ outcome' = r.outcome
  /\ last' = o
  /\ nops' = nops + 1
  /\ UNCHANGED <<par, buf, ser, cfg, enc, smu, cvars, fn, evars, made>>

\* embeddings.New(config) on a path that holds the table of an earlier run, or
\* none: every entry was written by SetEmbedding.
StoreInit ==
  /\ cfg \in [ReadOnly : BOOLEAN, UseZeroEmbedding : BOOLEAN]
  /\ \E d \in [Words -> {NoEntry} \cup {Stored(v) : v \in EmbValues}] :
       kvdb = [NewKeyValueDB(cfg.ReadOnly) EXCEPT !.data = [k \in Keys |-> IF k \in Words THEN d[k] ELSE NoEntry]]
  /\ used = <<>>
  /\ ret = NoRet
  /\ pending = [w \in Words |-> NilMat]
  /\ held = [w \in Words |-> NilParam]
  /\ enc = NewProc(cfg)
  /\ smu = 0
  /\ par = NilParam
  /\ buf = <<>>
  /\ ser = NoSer
  /\ last = Op("New")
  /\ outcome = "ok"
  /\ nops = 0
  /\ pool = {}
  /\ fn = NoReshape
  /\ NoPredict
  /\ made = NoneMade
  /\ NoThreads

DoSetEmbedding ==
  /\ Alive
  /\ \E w \in Words, v \in EmbValues :
       \E r \in {SetEmbedding(cfg, used, kvdb, w, v)} :
          /\ StoreReturns(r, [Op("SetEmbedding") EXCEPT !.word = w, !.mat = v])
          /\ pending' = IF r.outcome = "ok" THEN [pending EXCEPT ![w] = v] ELSE pending
  /\ UNCHANGED <<held, pool>>

\* GetEmbedding(w); the caller keeps the Parameter it is given.
DoGetEmbedding ==
  /\ Alive
  /\ \E w \in Words :
       /\ \E r \in {GetEmbedding(cfg, used, kvdb, w)} :
            /\ StoreReturns(r, [Op("GetEmbedding") EXCEPT !.word = w])
            /\ held' = IF r.ret.kind = "param" THEN [held EXCEPT ![r.ret.par.name] = r.ret.par]
                       ELSE held
       /\ pending' = [pending EXCEPT ![w] = NilMat]
  /\ UNCHANGED pool

\* ClearUsedEmbeddings; the Value of every cached Parameter goes to the pool.
DoClearUsedEmbeddings ==
  /\ Alive
  /\ StoreReturns(ClearUsedEmbeddings(cfg, used, kvdb), Op("ClearUsedEmbeddings"))
  /\ pool' = pool \cup Released(used)
  /\ UNCHANGED <<pending, held>>

DoCount ==
  /\ Alive
  /\ StoreReturns(Count(cfg, used, kvdb), Op("Count"))
  /\ UNCHANGED <<pending, held, pool>>

DoClose ==
  /\ Alive
  /\ StoreReturns(Close(cfg, used, kvdb), Op("Close"))
  /\ pending' = [w \in Words |-> NilMat]
  /\ pool' = pool \cup Released(used)
  /\ UNCHANGED held

\* A method `r` of the Parameter the caller holds for key w has run: the
\* working set holds the same Parameter as long as w is cached.
HeldReturns(w, r, o) ==
  /\ held' = [held EXCEPT ![w] = r.par]
  /\ used' = IF w \in DOMAIN used THEN [used EXCEPT ![w] = r.par] ELSE used
  /\ kvdb' = r.kvdb
  /\ outcome' = r.outcome
  /\ last' = o
  /\ nops' = nops + 1
  /\ pending' = [pending EXCEPT ![w] = NilMat]
  /\ UNCHANGED <<par, buf, ser, pool, cfg, ret, enc, smu, cvars, fn, evars, made>>

\* ApplyDelta(d) on a Parameter GetEmbedding returned (the optimizer's step).
DoHeldApplyDelta ==
  /\ Alive
  /\ \E w \in Words, d \in EmbValues :
       /\ held[w] # NilParam
       /\ \E r \in {ApplyDelta(held[w], kvdb, d)} :
            HeldReturns(w, r, [Op("ApplyDelta") EXCEPT !.word = w, !.mat = d])

\* SetPayload(s) on a Parameter GetEmbedding returned (the optimizer's support).
DoHeldSetPayload ==
  /\ Alive
  /\ \E w \in Words, sp \in Payloads :
       /\ held[w] # NilParam
       /\ \E r \in {SetPayload(held[w], kvdb, sp)} :
            HeldReturns(w, r, [Op("SetPayload") EXCEPT !.word = w, !.payload = sp])

StoreNext ==
  \/ DoSetEmbedding
  \/ DoGetEmbedding
  \/ DoClearUsedEmbeddings
  \/ DoCount
  \/ DoClose
  \/ DoHeldApplyDelta
  \/ DoHeldSetPayload

StoreSpec == StoreInit /\ [][StoreNext]_vars

\* ------------------------------------------------ one Processor of the Store
\* Encode(ws), the one sentence this Processor encodes; the caller keeps the
\* Parameters the Nodes wrap.
DoEncode ==
  /\ Alive
  /\ enc.words = <<>>
  /\ \E ws \in SeqsUpTo(Words, MaxWords) :
       \E r \in {Encode(cfg, used, kvdb, enc.next, ws)} :
          /\ used' = r.used
          /\ kvdb' = r.kvdb
          /\ outcome' = r.outcome
          /\ enc' = [next |-> r.next, words |-> ws, nodes |-> r.encoding,
                     calls |-> r.calls, wraps |-> r.wraps, found |-> r.found]
          /\ held' = [w \in Words |-> IF w \in DOMAIN r.used \ DOMAIN used THEN r.used[w] ELSE held[w]]
          /\ pending' = [w \in Words |-> IF \E i \in 1..Len(ws) : ws[i] = w THEN NilMat ELSE pending[w]]
  /\ last' = Op("Encode")
  /\ nops' = nops + 1
  /\ UNCHANGED <<par, buf, ser, pool, cfg, ret, smu, cvars, fn, evars, made>>

EncodeNext ==
  \/ DoEncode
  \/ DoGetEmbedding

EncodeSpec == StoreInit /\ [][EncodeNext]_vars


\* ------------------------------------------ one Store, several threads calling
\* A call on the Store is made in steps, one for each access to the working
\* set or to the storage handle: getEmbedding's read of m.UsedEmbeddings
\* ("look") and its storage.Get ("get"), m.mu.Lock() ("slock"), the write of
\* the map entry ("store") or the replacement of the map ("clear"),
\* m.mu.Unlock() ("sunlock"), SetEmbedding's Put ("put"), Count's Keys ("keys")
\* and Close's storage.Close ("close").
\* `got` names the instance a GetEmbedding returned: the NewParam call (thread
\* and call number) that built it, and how often the working set had been
\* cleared when it was returned.
NoInst == [id |-> <<>>, epoch |-> 0]

StoreNoCall ==
  [op |-> "", word |-> "", mat |-> NilMat, second |-> FALSE, emb |-> NilParam, ret |-> NoRet,
   got |-> NoInst]

\* The calls a thread can make on the Store.
StoreCallsOf ==
  {[StoreNoCall EXCEPT !.op = "GetEmbedding", !.word = w] : w \in Words}
  \cup {[StoreNoCall EXCEPT !.op = "SetEmbedding", !.word = w, !.mat = v] : w \in Words, v \in EmbValues}
  \cup {[StoreNoCall EXCEPT !.op = op] : op \in {"ClearUsedEmbeddings", "Count", "Close"}}

\* The first step of each method.
FirstStep(op) ==
  CASE op = "GetEmbedding" -> "look"
    [] op = "SetEmbedding" -> "put"
    [] op = "ClearUsedEmbeddings" -> "slock"
    [] op = "Count" -> "keys"
    [] OTHER -> "close"

\* The steps that read the working set or call the storage handle, and the
\* steps that write the working set.
MapReads == {"look"}

MapWrites == {"store", "clear"}

HandleCalls == {"get", "put", "keys", "close"}

\* Thread t's call returns r.
SReturn(t, r) ==
  /\ loc' = [loc EXCEPT ![t].ret = r]
  /\ Goto(t, "idle")

\* Thread t starts a call on the Store.
SCall(t) ==
  /\ Running
  /\ pc[t] = "idle"
  /\ calls[t] < MaxCalls
  /\ \E c \in StoreCallsOf :
       /\ loc' = [loc EXCEPT ![t] = c]
       /\ Goto(t, FirstStep(c.op))
  /\ calls' = [calls EXCEPT ![t] = @ + 1]
  /\ UNCHANGED <<pvars, svars, mu, allocs, fn, evars, made>>

\* getEmbedding: "if embedding, ok := m.UsedEmbeddings[word]; ok { return embedding }"
SLook(t) ==
  /\ Running
  /\ pc[t] = "look"
  /\ IF loc[t].word \in DOMAIN used
     THEN /\ loc' = [loc EXCEPT ![t].ret = Ret("param", used[loc[t].word], 0),
                                ![t].got = [id |-> made.by[loc[t].word], epoch |-> made.epoch]]
          /\ Goto(t, "idle")
     ELSE Goto(t, "get") /\ loc' = loc
  /\ UNCHANGED <<pvars, svars, mu, allocs, calls, fn, evars, made>>

\* getEmbedding: storage.Get, then the Parameter is built from the bytes; a
\* word that is not found is looked up once more, in lower case, by GetEmbedding.
SGet(t) ==
  /\ Running
  /\ pc[t] = "get"
  /\ \E g \in {Get(kvdb, loc[t].word)} :
       IF g.err THEN outcome' = "fatal" /\ Goto(t, "idle") /\ loc' = loc
       ELSE IF ~g.ok
       THEN /\ outcome' = outcome
            /\ IF loc[t].second THEN SReturn(t, Ret("nil", NilParam, 0))
               ELSE /\ loc' = [loc EXCEPT ![t].word = ToLower(@), ![t].second = TRUE]
                    /\ Goto(t, "look")
       ELSE \E d \in {Deserialize(NewParam(NilMat, TRUE, TRUE), g.data)} :
              IF d.err THEN outcome' = "fatal" /\ Goto(t, "idle") /\ loc' = loc
              ELSE /\ outcome' = outcome
                   /\ loc' = [loc EXCEPT ![t].emb =
                        SetName([d.par EXCEPT !.requiresGrad = IF cfg.ReadOnly THEN FALSE ELSE @],
                                loc[t].word)]
                   /\ Goto(t, "slock")
  /\ UNCHANGED <<par, kvdb, buf, ser, last, nops, pool, svars, mu, allocs, calls, fn, evars, made>>

\* m.mu.Lock()
SLock(t) ==
  /\ Running
  /\ pc[t] = "slock"
  /\ smu = 0
  /\ smu' = t
  /\ Goto(t, IF loc[t].op = "GetEmbedding" THEN "store" ELSE "clear")
  /\ UNCHANGED <<pvars, cfg, used, ret, pending, held, enc, mu, loc, allocs, calls, fn, evars, made>>

\* getEmbedding: m.UsedEmbeddings[word] = embedding
SStore(t) ==
  /\ Running
  /\ pc[t] = "store"
  /\ used' = (loc[t].word :> loc[t].emb) @@ used
  /\ made' = [made EXCEPT !.by[loc[t].word] = <<t, calls[t]>>]
  /\ loc' = [loc EXCEPT ![t].ret = Ret("param", loc[t].emb, 0),
                        ![t].got = [id |-> <<t, calls[t]>>, epoch |-> made.epoch]]
  /\ Goto(t, "sunlock")
  /\ UNCHANGED <<pvars, cfg, ret, pending, held, enc, smu, mu, allocs, calls, fn, evars>>

\* ClearUsedEmbeddings: the Values are released and the map is replaced.
SClear(t) ==
  /\ Running
  /\ pc[t] = "clear"
  /\ used' = <<>>
  /\ pool' = pool \cup Released(used)
  /\ made' = [epoch |-> made.epoch + 1, by |-> NoneMade.by]
  /\ Goto(t, "sunlock")
  /\ UNCHANGED <<par, kvdb, buf, ser, last, outcome, nops, cfg, ret, pending, held, enc, smu, mu, loc, allocs, calls, fn, evars>>

\* m.mu.Unlock()
SUnlock(t) ==
  /\ Running
  /\ pc[t] = "sunlock"
  /\ smu' = 0
  /\ Goto(t, "idle")
  /\ UNCHANGED <<pvars, cfg, used, ret, pending, held, enc, mu, loc, allocs, calls, fn, evars, made>>

\* SetEmbedding: the read-only test, the serialization and storage.Put.
SPut(t) ==
  /\ Running
  /\ pc[t] = "put"
  /\ \E r \in {SetEmbedding(cfg, used, kvdb, loc[t].word, loc[t].mat)} :
       /\ kvdb' = r.kvdb
       /\ outcome' = r.outcome
  /\ Goto(t, "idle")
  /\ UNCHANGED <<par, buf, ser, last, nops, pool, svars, mu, loc, allocs, calls, fn, evars, made>>

\* Count: storage.Keys()
SKeys(t) ==
  /\ Running
  /\ pc[t] = "keys"
  /\ \E r \in {Count(cfg, used, kvdb)} :
       /\ outcome' = r.outcome
       /\ IF r.outcome = "ok" THEN SReturn(t, r.ret) ELSE Goto(t, "idle") /\ loc' = loc
  /\ UNCHANGED <<par, kvdb, buf, ser, last, nops, pool, svars, mu, allocs, calls, fn, evars, made>>

\* Close: _ = m.storage.Close(); m.ClearUsedEmbeddings() follows.
SClose(t) ==
  /\ Running
  /\ pc[t] = "close"
  /\ kvdb' = CloseDB(kvdb)
  /\ Goto(t, "slock")
  /\ UNCHANGED <<par, buf, ser, last, outcome, nops, pool, svars, mu, loc, allocs, calls, fn, evars, made>>

\* A Store opened on a table in which each word is stored or not, and no
\* thread in a call.
StoreConcInit ==
  /\ cfg \in [ReadOnly : BOOLEAN, UseZeroEmbedding : BOOLEAN]
  /\ \E S \in SUBSET Words :
       kvdb = [NewKeyValueDB(cfg.ReadOnly) EXCEPT
                 !.data = [k \in Keys |-> IF k \in S THEN Stored(Mat(Size, 1, <<0>>)) ELSE NoEntry]]
  /\ used = <<>>
  /\ ret = NoRet
  /\ pending = [w \in Words |-> NilMat]
  /\ held = [w \in Words |-> NilParam]
  /\ enc = NewProc(cfg)
  /\ smu = 0
  /\ par = NilParam
  /\ buf = <<>>
  /\ ser = NoSer
  /\ last = Op("New")
  /\ outcome = "ok"
  /\ nops = 0
  /\ pool = {}
  /\ fn = NoReshape
  /\ NoPredict
  /\ made = NoneMade
  /\ mu = 0
  /\ allocs = 0
  /\ pc = [t \in Threads |-> "idle"]
  /\ loc = [t \in Threads |-> StoreNoCall]
  /\ calls = [t \in Threads |-> 0]

StoreConcNext ==
  \E t \in Threads :
    \/ SCall(t)
    \/ SLook(t)
    \/ SGet(t)
    \/ SLock(t)
    \/ SStore(t)
    \/ SClear(t)
    \/ SUnlock(t)
    \/ SPut(t)
    \/ SKeys(t)
    \/ SClose(t)

StoreConcSpec == StoreConcInit /\ [][StoreConcNext]_vars

\* ------------------------------------------------- claims about one Parameter
\* The bytes a freshly constructed Parameter is given decode to.
Decoded(b) == Deserialize(NewParam(NilMat, TRUE, FALSE), b)

\* An absent Payload and an empty one (label 0, no data) are the same Payload.
PayloadEq(a, b) ==
  \/ a = b
  \/ a.nil /\ b = NewEmptySupport
  \/ b.nil /\ a = NewEmptySupport

\* The layout of section 4.5: the Value, the header {label, count}, count Values;
\* an absent Payload is the header {0, 0}.
Layout(p) ==
  LET pl == IF p.payload.nil THEN NewEmptySupport ELSE p.payload
  IN MatMarshalBinaryTo(p.value) \o <<pl.Label, Len(pl.Data)>> \o MarshalBinarySlice(pl.Data)

\* C1: after ReplaceValue(v) returns, the Value is v and the Gradient and the
\* Payload are absent, whatever they were before.
C1_ReplaceValueClears ==
  (last.op = "ReplaceValue" /\ outcome = "ok") =>
    (par.value = last.mat /\ par.grad.nil /\ par.payload.nil)

\* C2: in every reachable state the Gradient is absent or has the rows and
\* columns of the current Value.
C2_GradShapeOfValue ==
  par.grad.nil \/ (~par.value.nil /\ SameDims(par.grad, par.value))

\* C5: on a storage-backed Parameter holding a Value, ReplaceValue, ApplyDelta
\* (with a delta of the Value's shape), SetPayload and ClearPayload complete
\* without crashing and leave under the Parameter's name an entry that decodes
\* to the current Value and Payload.
C5_WriteThrough ==
  ( /\ par.storage
    /\ ~par.value.nil
    /\ last.op \in {"ReplaceValue", "ApplyDelta", "SetPayload", "ClearPayload"}
    /\ (last.op = "ApplyDelta" => SameDims(last.mat, par.value)) ) =>
    ( /\ outcome = "ok"
      /\ kvdb.data[par.name].found
      /\ ~Decoded(kvdb.data[par.name].data).err
      /\ Decoded(kvdb.data[par.name].data).par.value = par.value
      /\ PayloadEq(Decoded(kvdb.data[par.name].data).par.payload, par.payload) )

\* C6: Serialize of a Parameter holding a Value succeeds and writes the Value,
\* the header {label, count} and count Values, in this order; with the Payload
\* absent it writes the header {0, 0} and nothing after it.
C6_SerializeLayout ==
  (last.op = "Serialize" /\ ~par.value.nil) => (outcome = "ok" /\ buf = Layout(par))

\* C7: Serialize succeeds with and without a Payload, and Deserialize of the
\* written bytes yields the Value and the Payload that were serialized.
C7_RoundTrip ==
  /\ (last.op = "Serialize" /\ ~par.value.nil) => outcome = "ok"
  /\ (last.op = "Deserialize" /\ ser.valid /\ last.bytes = buf) =>
       (outcome = "ok" /\ par.value = ser.value /\ PayloadEq(par.payload, ser.payload))

\* C8: Deserialize of a proper prefix of a valid serialization returns an error
\* (it does not panic) and leaves the Parameter as it was.
C8_TruncatedIsError ==
  [][(last'.op = "Deserialize" /\ ser.valid /\ Len(last'.bytes) < Len(buf)) =>
       (outcome' = "error" /\ par' = par)]_vars

\* C8's case: the input is cut inside the Payload's data, and the Parameter read
\* into holds a Value and a Payload.
C8_Witness ==
  /\ last.op = "Deserialize"
  /\ ser.valid
  /\ outcome = "error"
  /\ Len(last.bytes) > Len(MatMarshalBinaryTo(ser.value)) + 2
  /\ Len(last.bytes) < Len(buf)
  /\ ~par.value.nil
  /\ ~par.payload.nil

\* ------------------------------------------- claims about concurrent callers
RECURSIVE SumOfArgs(_, _)
\* The sum, over the threads of T, of element i of the gradient each one passed.
SumOfArgs(T, i) ==
  IF T = {} THEN 0
  ELSE LET t == CHOOSE x \in T : TRUE
       IN loc[t].mat.data[i] + SumOfArgs(T \ {t}, i)

AllReturned == \A t \in Threads : pc[t] = "idle"

\* C3: when every thread's PropagateGrad(g_t) has returned, the Gradient is the
\* element-wise sum of all g_t and its buffer was allocated exactly once.
C3_NoLostAccumulation ==
  AllReturned =>
    /\ outcome = "ok"
    /\ par.hasGrad
    /\ par.grad = Mat(par.value.rows, par.value.cols,
                      [i \in 1..(par.value.rows * par.value.cols) |-> SumOfArgs(Threads, i)])
    /\ allocs = 1

\* C3's case: all calls have returned and every thread passed a non-zero
\* gradient, so that a lost accumulation would show.
C3_Witness ==
  /\ AllReturned
  /\ \A t \in Threads : loc[t].op = "PropagateGrad" /\ loc[t].mat.data[1] = 1
  /\ par.grad.data[1] = NThreads

\* C4: Value(), Grad() and Payload() read their field under the Parameter's
\* lock: no thread is at that read while another thread holds the lock inside
\* the critical section of a mutator.
C4_ReadsUnderLock ==
  \A t \in Threads : \A u \in Threads \ {t} :
    ~ ( /\ pc[t] = "body"
        /\ loc[t].op \in Readers
        /\ mu = u
        /\ loc[u].op \in Mutators
        /\ pc[u] \in {"body", "read", "write"} )

\* ------------------------------------------------------ claims about the Store
\* The word has an embedding: in the working set or in the backing store.
Has(w) == w \in DOMAIN used \/ kvdb.data[w].found

\* The Parameter of key w: the cached one, else the stored one materialized.
ParamOf(w) ==
  IF w \in DOMAIN used THEN used[w]
  ELSE SetName([Decoded(kvdb.data[w].data).par EXCEPT
                  !.storage = TRUE, !.requiresGrad = ~cfg.ReadOnly], w)

\* C9: the GetEmbedding(w) that follows a returned SetEmbedding(w, v) returns a
\* Parameter whose Value is v, whether or not w was cached at the SetEmbedding.
C9_GetAfterSet ==
  [][(last'.op = "GetEmbedding" /\ ~pending[last'.word].nil) =>
       (outcome' = "ok" /\ ret'.kind = "param" /\ ret'.par.value = pending[last'.word])]_vars

C11_ReadOnlyStore ==
  [][cfg.ReadOnly =>
       /\ last'.op = "SetEmbedding" => (outcome' = "fatal" /\ kvdb' = kvdb)
       /\ (last'.op = "GetEmbedding" /\ ret'.kind = "param") => ~ret'.par.requiresGrad]_vars

\* C11's case: a read-only Store has returned a stored Parameter a second time,
\* from the working set.
C11_Witness ==
  /\ cfg.ReadOnly
  /\ last.op = "GetEmbedding"
  /\ outcome = "ok"
  /\ nops >= 2
  /\ ret.kind = "param"
  /\ ~ret.par.requiresGrad


\* C12: ClearUsedEmbeddings empties the working set and leaves the backing
\* store as it was (same entries, same Count), and for every word that was
\* cached the GetEmbedding that follows returns a Parameter with the Value the
\* cached Parameter had just before the clear.
C12_ClearKeepsValues ==
  [][last'.op = "ClearUsedEmbeddings" =>
       /\ outcome' = "ok"
       /\ used' = <<>>
       /\ kvdb' = kvdb
       /\ Count(cfg, used', kvdb').ret = Count(cfg, used, kvdb).ret
       /\ \A w \in DOMAIN used :
            /\ GetEmbedding(cfg, used', kvdb', w).ret.kind = "param"
            /\ GetEmbedding(cfg, used', kvdb', w).ret.par.value = used[w].value]_vars

\* C13: Close leaves the working set empty, and on a closed Store every
\* SetEmbedding, Count and GetEmbedding, and every write-through of ApplyDelta
\* or SetPayload from a Parameter returned earlier, fails and leaves the
\* backing store's contents as they were.
C13_ClosedStoreFails ==
  [][/\ last'.op = "Close" => (used' = <<>> /\ kvdb'.closed /\ kvdb'.data = kvdb.data)
     /\ (kvdb.closed /\ last'.op \in {"SetEmbedding", "Count", "GetEmbedding", "ApplyDelta", "SetPayload"}) =>
          (outcome' \in {"fatal", "panic"} /\ kvdb'.data = kvdb.data /\ used' = <<>>)]_vars

\* C13's case: a write-through from a Parameter returned before the Close has
\* failed on the closed Store.
C13_Witness ==
  /\ kvdb.closed
  /\ last.op \in {"ApplyDelta", "SetPayload"}
  /\ outcome = "fatal"
  /\ held[last.word] # NilParam
  /\ kvdb.data[last.word].found

\* C19: every word of the working set is a key of the backing store; a key of
\* the backing store stays one; a word enters the working set only by a
\* GetEmbedding that found it, and leaves only by ClearUsedEmbeddings or Close.
C19_WorkingSetOfStore ==
  [][/\ \A w \in DOMAIN used' : kvdb'.data[w].found
     /\ \A w \in Words : kvdb.data[w].found => kvdb'.data[w].found
     /\ \A w \in DOMAIN used' \ DOMAIN used :
          last'.op = "GetEmbedding" /\ ret'.kind = "param" /\ ret'.par.name = w
     /\ \A w \in DOMAIN used \ DOMAIN used' :
          last'.op \in {"ClearUsedEmbeddings", "Close"}]_vars

\* C19's case: after a clear, a lookup has brought a stored word back into the
\* working set.
C19_Witness ==
  /\ last.op = "GetEmbedding"
  /\ nops = 3
  /\ ret.kind = "param"
  /\ ret.par.name = last.word
  /\ last.word \in DOMAIN used
  /\ kvdb.data[last.word].found
  /\ held[last.word] = used[last.word]


\* The distinct words of the last Encode.
WordsOf(ws) == {ws[i] : i \in 1..Len(ws)}

\* One entry per input word, and the identical Node at any two positions that
\* hold the same word.
OneNodePerWord ==
  /\ Len(enc.nodes) = Len(enc.words)
  /\ \A i, j \in 1..Len(enc.words) : enc.words[i] = enc.words[j] => enc.nodes[i] = enc.nodes[j]

\* C14 as stated: after Encode(ws), the calls of Model.GetEmbedding and the
\* graph wraps both number the distinct words of ws, the output has one entry
\* per word, and equal words hold the identical Node.
C14_WrapPerDistinctWord ==
  (last.op = "Encode" /\ outcome = "ok") =>
    /\ enc.calls = Cardinality(WordsOf(enc.words))
    /\ enc.wraps = Cardinality(WordsOf(enc.words))
    /\ OneNodePerWord

\* C14, amended: after Encode(ws), Model.GetEmbedding was called once per
\* distinct word of ws and the graph wrapped once per distinct word that has an
\* embedding; the output has one entry per word, and equal words hold the
\* identical Node.
C14_LookupPerDistinctWord ==
  (last.op = "Encode" /\ outcome = "ok") =>
    /\ enc.calls = Cardinality(WordsOf(enc.words))
    /\ enc.wraps = Cardinality(enc.found)
    /\ enc.found \subseteq WordsOf(enc.words)
    /\ \A i \in 1..Len(enc.words) :
         enc.words[i] \in enc.found <=> (~enc.nodes[i].nil /\ enc.nodes[i] # zeroEmbedding(cfg))
    /\ OneNodePerWord

\* C14's case: three words, the first repeated and found, the third another
\* word: two lookups, and the repeated word's two Nodes are one Node.
C14_Witness ==
  /\ last.op = "Encode"
  /\ outcome = "ok"
  /\ Len(enc.words) = 3
  /\ enc.words[1] = enc.words[2]
  /\ enc.words[3] # enc.words[1]
  /\ enc.calls = 2
  /\ ~enc.nodes[1].nil
  /\ enc.nodes[1] = enc.nodes[2]


\* C15: every read and write of the working-set mapping and every call on the
\* storage handle is made with the Store's lock held, so that no thread reads
\* the mapping while another thread writes or replaces it.
C15_StoreLockGuards ==
  \A t \in Threads :
    /\ pc[t] \in MapReads \cup MapWrites \cup HandleCalls => smu = t
    /\ \A u \in Threads \ {t} : ~(pc[t] \in MapReads /\ pc[u] \in MapWrites)


\* The gradients of the shape of p's Value.
GradsFor(p) == {g \in Values : SameDims(g, p.value)}

\* PropagateGrad(g1) then PropagateGrad(g2) on p: how the second call ended
\* (or the first, when it did not return) and the Gradient that is left.
TwoPropagateGrads(p, g1, g2) ==
  Only({ IF a.outcome # "ok" THEN [outcome |-> a.outcome, grad |-> a.par.grad]
         ELSE Only({ [outcome |-> b.outcome, grad |-> b.par.grad]
                     : b \in {PropagateGrad(a.par, kvdb, g2)} })
         : a \in {PropagateGrad(p, kvdb, g1)} })

\* One PropagateGrad(g1 + g2) on p.
OnePropagateGrad(p, g1, g2) ==
  Only({ [outcome |-> a.outcome, grad |-> a.par.grad]
         : a \in {PropagateGrad(p, kvdb, AddInPlace(g1, g2))} })

\* C16: from any state of a Parameter that requires a gradient, and for any
\* gradients g1 and g2 of its shape, PropagateGrad(g1) then PropagateGrad(g2),
\* PropagateGrad(g2) then PropagateGrad(g1), and one PropagateGrad(g1 + g2)
\* leave the same Gradient.
C16_AccumulationCommutes ==
  (par.requiresGrad /\ ~par.value.nil) =>
    \A g1 \in GradsFor(par), g2 \in GradsFor(par) :
      /\ TwoPropagateGrads(par, g1, g2) = TwoPropagateGrads(par, g2, g1)
      /\ TwoPropagateGrads(par, g1, g2) = OnePropagateGrad(par, g1, g2)

\* C16's case: two PropagateGrad calls have accumulated on a Gradient that a
\* third can still be added to in either order.
C16_Witness ==
  /\ par.requiresGrad
  /\ last.op = "PropagateGrad"
  /\ outcome = "ok"
  /\ nops = 2
  /\ par.hasGrad
  /\ SameDims(par.grad, par.value)
  /\ par.grad.data[1] = 2

\* C17: PropagateGrad(g) on a Parameter that does not require a gradient
\* changes nothing of it; on one that does and has no Gradient, with g of the
\* Value's shape, the Gradient afterwards has the Value's shape and is g,
\* whatever the buffer the pool handed out held.
C17_FirstPropagateGrad ==
  [][last'.op = "PropagateGrad" =>
       /\ ~par.requiresGrad => (outcome' = "ok" /\ par' = par)
       /\ (Allocates(par) /\ SameDims(last'.mat, par.value)) =>
            /\ outcome' = "ok"
            /\ SameDims(par'.grad, par.value)
            /\ par'.grad = last'.mat
            /\ par'.hasGrad]_vars

\* C17's case: the gradient buffer came from the pool, where an earlier
\* ZeroGrad had released it holding a non-zero gradient.
C17_Witness ==
  /\ last.op = "PropagateGrad"
  /\ outcome = "ok"
  /\ ~last.took.nil
  /\ last.took.data[1] # 0
  /\ par.grad = last.mat

\* C20: after every call that returns, HasGrad() is true exactly when the
\* Gradient is present; after a ZeroGrad the Gradient is absent, HasGrad() is
\* false, and the buffer that held the Gradient is in the pool, not in the
\* Parameter.
C20_HasGradIffGradient ==
  [][/\ outcome' \in {"ok", "error"} => (par'.hasGrad <=> ~par'.grad.nil)
     /\ last'.op = "ZeroGrad" =>
          /\ outcome' = "ok"
          /\ par'.grad.nil
          /\ ~par'.hasGrad
          /\ ~par.grad.nil => par.grad \in pool']_vars

\* C20's case: a ZeroGrad has released an accumulated Gradient.
C20_Witness ==
  /\ last.op = "ZeroGrad"
  /\ outcome = "ok"
  /\ pool # {}
  /\ par.grad.nil
  /\ ~par.hasGrad

\* C18: Reshape.Backward(gy) panics for every gy whose rows or columns differ
\* from the node's (rows, cols), whether or not the operand requires a
\* gradient.
C18_BackwardRejectsMismatch ==
  [][(last'.op = "Backward" /\ (last'.mat.rows # fn.rows \/ last'.mat.cols # fn.cols))
       => outcome' = "panic"]_vars

C22_GraphPerPredict ==
  /\ \A k \in DOMAIN graphs :
       /\ Cardinality(graphs[k].by) = 1
       /\ graphs[k].cleared <= 1
       /\ graphs[k].left => graphs[k].cleared = 1
  /\ Len(graphs) = nops
  /\ ev.read \in {"none", "ok"}
  /\ (ev.pc \in {"defer", "leave"} /\ ~ev.panicking) => ev.read = "ok"
  /\ (ev.pc = "idle" /\ outcome = "ok" /\ nops > 0) => ev.read = "ok"

\* C22's case: a second Predict, after one that returned, is left by a panic
\* of its forward pass, its own graph cleared.
C22_Witness ==
  /\ Len(graphs) = 2
  /\ graphs[1].left /\ graphs[1].produced
  /\ graphs[2].left /\ ~graphs[2].produced
  /\ graphs[2].cleared = 1
  /\ outcome = "panic"

\* C23: while the working set is not cleared, any two GetEmbedding calls that
\* returned the Parameter of one word returned the same instance, and it is
\* the instance the working set holds for that word.
C23_OneInstancePerWord ==
  \A t, u \in Threads :
    (/\ pc[t] \in {"idle", "sunlock"} /\ loc[t].ret.kind = "param"
     /\ pc[u] \in {"idle", "sunlock"} /\ loc[u].ret.kind = "param"
     /\ loc[t].ret.par.name = loc[u].ret.par.name
     /\ loc[t].got.epoch = made.epoch
     /\ loc[u].got.epoch = made.epoch)
    => /\ loc[t].got.id = loc[u].got.id
       /\ loc[t].got.id = made.by[loc[t].ret.par.name]

\* C24: in every interleaving of concurrent ZeroGrad and PropagateGrad calls on
\* one Parameter no call crashes, and the Parameter's current Gradient is not
\* a buffer that was released to the pool.
C24_ZeroGradNeverCrashes ==
  /\ outcome # "panic"
  /\ ~par.grad.nil => par.grad \notin pool

\* C25: no operation on a Parameter that GetEmbedding of a read-only Store
\* returned issues a Put to the backing store: none of them ends in the
\* log.Fatal with which updateStorage answers the Put the store refused.
C25_NoPutWhenReadOnly ==
  ~(/\ cfg.ReadOnly
    /\ last.op \in {"ApplyDelta", "SetPayload"}
    /\ last.word \in Words
    /\ outcome = "fatal")

\* C26: for a Parameter with a Payload, the byte count Deserialize returns on
\* the complete serialization is the byte count the Serialize that wrote it
\* returned, which is the length of the written data: the Value's bytes, the
\* 16 bytes of the header and the bytes of the Payload's data.
C26_ByteCountsAgree ==
  (last.op = "Deserialize" /\ ser.valid /\ ~ser.payload.nil /\ last.bytes = buf) =>
    /\ ser.n = WordBytes * Len(buf)
    /\ ser.n = WordBytes * Len(MatMarshalBinaryTo(ser.value)) + headerSize
                + WordBytes * Len(MarshalBinarySlice(ser.payload.Data))
    /\ Deserialize(par, last.bytes).n = ser.n

====
